---- MODULE Spec2Model ----
(***************************************************************************)
(* A model of server/grasp_server.py: the capture pipeline of the grasp    *)
(* server (sanitize, render, write_org, move_to_obsidian_vault,            *)
(* remove_org), the request handler around it and the serial HTTP server   *)
(* that dispatches the requests.                                           *)
(*                                                                         *)
(* Strings are sequences of one-character strings.  Python's None and a    *)
(* key missing from the JSON payload are the two tagged values Null and    *)
(* Absent, which are no strings of characters.                             *)
(***************************************************************************)
EXTENDS Naturals, Sequences, FiniteSets

VARIABLES
    pc,         \* pc[r]: where request r is in serve_forever / do_POST / capture
    req,        \* req[r]: the decoded JSON payload of r (NoPayload before it is read)
    loc,        \* loc[r]: the locals of capture(): sanitized fields, tags, md_path, org
    ran,        \* ran[r]: the steps of r that returned normally, in order
    failedAt,   \* failedAt[r]: the step of r that raised, or "none"
    err,        \* err[r]: str(e) of the exception caught by do_POST
    resp,       \* resp[r]: the responses the handler of r started (send_response), in order
    fs,         \* fs[p]: the file at path p (the staging path and the vault files)
    md_before,  \* md_before[r]: the file at r's md_path when r's conversion started
    pandoc,     \* pandoc[r]: the pandoc child process of r
    pipe,       \* pipe[r]: what pandoc of r wrote to its stdout pipe
    cvar,       \* os.environ.get(CAPTURE_CONFIG_VAR): "set" or "unset"
    config_cache, \* what lru_cache(1) holds for capture_config(): "miss" when empty
    loaded,     \* the config source has been read and evaluated at least once
    sed_rc,     \* sed_rc[r]: the exit status of the sed child process of r
    warned,     \* warned[r]: the warnings write_org logged for r
    outside,    \* another actor deleted the staging file the capture being served wrote
    arg,        \* argument of the pure functions (specification SpecPure)
    out         \* result of the pure functions (specification SpecPure)

config_vars == <<cvar, config_cache, loaded>>

vars == <<pc, req, loc, ran, failedAt, err, resp, fs, md_before,
          pandoc, pipe, arg, out, cvar, config_cache, loaded,
          sed_rc, warned, outside>>

pipeline_vars == <<pc, req, loc, ran, failedAt, err, resp, fs,
                   md_before, pandoc, pipe, config_vars,
                   sed_rc, warned, outside>>

-----------------------------------------------------------------------------
(* Bounds *)

NumRequests == 2
MaxLen == 4
MaxPieces == 3

Req == 1..NumRequests

-----------------------------------------------------------------------------
(* Values *)

Null == <<"None">>
Absent == <<"absent">>

Whitespace == {" ", "\t", "\n"}
TagDelims == Whitespace \cup {","}

Alphabet == {"a", "b", ".", ",", " "}

Strings(n) == UNION {[1..k -> Alphabet] : k \in 0..n}

-----------------------------------------------------------------------------
(* Pure functions of capture() *)

\* def safe(s): '' if s is None else s
safe(s) == IF s = Null THEN <<>> ELSE s

\* org_tools.empty: None, or nothing left after stripping whitespace
empty(s) == s = Null \/ \A i \in 1..Len(s) : s[i] \in Whitespace

\* str.split(sep) and re.split('[...]') for one-character separators: the
\* string is cut at every separator character, empty pieces kept.
RECURSIVE SplitFrom(_, _, _, _)
SplitFrom(s, D, i, cur) ==
    IF i > Len(s) THEN <<cur>>
    ELSE IF s[i] \in D THEN <<cur>> \o SplitFrom(s, D, i + 1, <<>>)
    ELSE SplitFrom(s, D, i + 1, Append(cur, s[i]))

StrSplit(s, D) == SplitFrom(s, D, 1, <<>>)

MdSuffix == <<".", "m", "d">>

\* a plausible slip: the text before the LAST '.' (rsplit('.', 1)[0])
ObsidianFilenameLastDot(comment) ==
    LET dots == {i \in 1..Len(comment) : comment[i] = "."}
        last == IF dots = {} THEN Len(comment) + 1
                ELSE CHOOSE i \in dots : \A j \in dots : j <= i
    IN  SubSeq(comment, 1, last - 1) \o MdSuffix

\* obsidian_filename = comment.split(".")[0] + '.md'
ObsidianFilename(comment) == StrSplit(comment, {"."})[1] \o MdSuffix

NotEmpty(t) == ~empty(t)

\* a plausible slip: the "just in case" filter of empty tokens left out
SplitTagsNoFilter(tag_str) ==
    IF empty(tag_str) THEN <<>> ELSE StrSplit(tag_str, TagDelims)

\* tags = [] ; if not empty(tag_str): re.split(r'[\s,]', tag_str), non-empty kept
SplitTags(tag_str) ==
    IF empty(tag_str) THEN <<>>
    ELSE SelectSeq(StrSplit(tag_str, TagDelims), NotEmpty)

-----------------------------------------------------------------------------
(* The output filter of move_to_obsidian_vault *)

\* the marker token of the sed script
Marker ==
    <<"#", "o", "r", "g", "2", "m", "d", "i", "s", "s", "u", "e", "s", "#">>

EscapedOpen == <<"\\", "[">>
EscapedClose == <<"\\", "]">>

\* s starts with pat at position i
MatchAt(s, pat, i) ==
    i + Len(pat) - 1 <= Len(s) /\ SubSeq(s, i, i + Len(pat) - 1) = pat

\* sed 's/pat/rep/' for a literal pat on one line: the first match is replaced
Sub(s, pat, rep) ==
    IF \E i \in 1..Len(s) : MatchAt(s, pat, i)
    THEN LET i == CHOOSE k \in 1..Len(s) :
                     MatchAt(s, pat, k) /\ \A j \in 1..(k - 1) : ~MatchAt(s, pat, j)
         IN  SubSeq(s, 1, i - 1) \o rep \o SubSeq(s, i + Len(pat), Len(s))
    ELSE s

\* sed 's/pat/rep/g' for a literal pat on one line: one pass from the left,
\* every match that does not overlap an earlier one is replaced, and what has
\* been put out is not looked at again
RECURSIVE GsubFrom(_, _, _, _)
GsubFrom(s, pat, rep, i) ==
    IF i > Len(s) THEN <<>>
    ELSE IF MatchAt(s, pat, i)
         THEN rep \o GsubFrom(s, pat, rep, i + Len(pat))
         ELSE <<s[i]>> \o GsubFrom(s, pat, rep, i + 1)

Gsub(s, pat, rep) == GsubFrom(s, pat, rep, 1)

\* a plausible slip: the g flags left out
SedFilterFirstOnly(s) ==
    Sub(Sub(Sub(s, EscapedOpen, <<"[">>), EscapedClose, <<"]">>), Marker, <<>>)

\* sed 's/\\\[/\[/g;s/\\\]/\]/g;s/#org2mdissues#//g': the three commands in turn
SedFilter(s) ==
    Gsub(Gsub(Gsub(s, EscapedOpen, <<"[">>), EscapedClose, <<"]">>), Marker, <<>>)

\* the pieces the inputs of the filter are put together from
SedPieces ==
    {<<"a">>, <<"\\">>, <<"[">>, EscapedOpen, EscapedClose, Marker,
     SubSeq(Marker, 1, 8), SubSeq(Marker, 9, Len(Marker))}

RECURSIVE Flatten(_)
Flatten(ss) == IF ss = <<>> THEN <<>> ELSE Head(ss) \o Flatten(Tail(ss))

\* "a \[b\] #org2mdissues#c"
SedExample ==
    <<"a", " ">> \o EscapedOpen \o <<"b">> \o EscapedClose \o <<" ">>
    \o Marker \o <<"c">>

\* the texts pandoc hands to sed: up to n pieces, and the example
SedInputs(n) ==
    {Flatten(ss) : ss \in UNION {[1..k -> SedPieces] : k \in 0..n}}
    \cup {SedExample}

-----------------------------------------------------------------------------
(* Paths and files *)

\* --path default '~/capture.org' and --obsidian-vault-path default '~/vault',
\* after expanduser(), with the home directory written "/"
StagingPath == <<"/", "c", ".", "o", "r", "g">>
VaultDir == <<"/", "V">>

\* pathlib's Path(a) / b: an absolute b replaces a
PathJoin(dir, name) ==
    IF name # <<>> /\ name[1] = "/" THEN name ELSE dir \o <<"/">> \o name

\* Path.parent: the path up to its last "/"
Parent(p) ==
    LET slashes == {i \in 1..Len(p) : p[i] = "/"}
        last == CHOOSE i \in slashes : \A j \in slashes : j <= i
    IN  SubSeq(p, 1, last - 1)

\* md_path = Path(os.environ[OBSIDIAN_PATH_VAR]).expanduser() / obsidian_filename
MdPath(comment) == PathJoin(VaultDir, ObsidianFilename(comment))

\* p lies inside the vault directory
InVault(p) ==
    /\ Len(p) > Len(VaultDir)
    /\ SubSeq(p, 1, Len(VaultDir) + 1) = VaultDir \o <<"/">>

\* A file: its kind, the request that wrote it (0: nobody, or not told apart)
\* and its text.
NoFile == [kind |-> "none", by |-> 0, text |-> <<>>]
OldFile == [kind |-> "old", by |-> 0, text |-> <<>>]
EmptyFile == [kind |-> "empty", by |-> 0, text |-> <<>>]
OrgFile(r, org) == [kind |-> "org", by |-> r, text |-> org]

\* pandoc -f org --to markdown+hard_line_breaks, then sed: the markdown
\* rendering of the text pandoc read
MdOf(r, f) == [kind |-> "md", by |-> 0, text |-> f.text]

-----------------------------------------------------------------------------
(* Requests *)

Fields == {"url", "title", "selection", "comment", "tag_str"}

UrlVals == {<<"u">>}
\* a title that makes the rendered text longer than 4096 bytes
LongTitle == <<"T">>

TitleVals == {Absent, Null, LongTitle}
SelectionVals == {Absent, Null}
CommentVals == {Absent, Null, <<"n", ".", "v">>, <<"/", "x">>}
TagStrVals == {Absent, Null}

\* json.loads(post_data): the payloads a client can post
Payloads ==
    [url : UrlVals, title : TitleVals, selection : SelectionVals,
     comment : CommentVals, tag_str : TagStrVals]

NoPayload ==
    [url |-> Absent, title |-> Absent, selection |-> Absent,
     comment |-> Absent, tag_str |-> Absent]

NoLocals ==
    [url |-> <<>>, title |-> <<>>, selection |-> <<>>, comment |-> <<>>,
     tag_str |-> <<>>, tags |-> <<>>, md_path |-> <<>>, org |-> <<>>,
     config |-> "None"]

\* the paths a capture can write
Paths ==
    {StagingPath} \cup {MdPath(safe(c)) : c \in CommentVals \ {Absent}}

\* org_tools.as_org(url, title, selection, comment, tags, org_template, config):
\* a pure function of the sanitized fields and the config
as_org(l) == <<l.url, l.title, l.selection, l.comment, l.tags, l.config>>

\* the steps of capture(), in order
StepOrder ==
    <<"call", "config", "sanitize", "render", "write_org", "mkdir", "popen",
      "open_md", "sed", "remove_org">>

NoOutput == EmptyFile

\* what pandoc wrote before it failed: a part of the markdown
PartialOutput == [kind |-> "cut", by |-> 0, text |-> <<>>]

\* write_org: "if len(org.encode('utf8')) > 4096"
AtomicWriteLimit == 4096

\* len(org.encode('utf8')), org the text as_org returned
Utf8Len(org) ==
    Len(org[1]) + Len(org[4])
    + (IF org[2] = LongTitle THEN AtomicWriteLimit + 1 ELSE 0)

NoResponse == <<>>
OkResponse == [code |-> 200, path |-> StagingPath, status |-> "ok", text |-> ""]
ErrorResponse(msg) == [code |-> 500, path |-> <<>>, status |-> "", text |-> msg]

\* send_response(200) and the headers, without the body
OkHead == [code |-> 200, path |-> <<>>, status |-> "", text |-> ""]

-----------------------------------------------------------------------------
(* Initial state *)

\* The server has been started by run() and the clients have connected and
\* posted: their connections wait in the listen backlog.  The staging path
\* and the vault files are in any state earlier runs left them; no file of
\* the names a capture can produce exists outside the vault.
InitPipeline ==
    /\ pc = [r \in Req |-> "queued"]
    /\ req = [r \in Req |-> NoPayload]
    /\ loc = [r \in Req |-> NoLocals]
    /\ ran = [r \in Req |-> <<>>]
    /\ failedAt = [r \in Req |-> "none"]
    /\ err = [r \in Req |-> ""]
    /\ resp = [r \in Req |-> NoResponse]
    /\ fs \in [Paths -> {NoFile, OldFile}]
    /\ \A p \in Paths : p # StagingPath /\ ~InVault(p) => fs[p] = NoFile
    /\ md_before = [r \in Req |-> NoFile]
    /\ pandoc = [r \in Req |-> "none"]
    /\ pipe = [r \in Req |-> NoOutput]
    /\ cvar \in {"unset", "set"}
    /\ config_cache = "miss"
    /\ loaded = FALSE
    /\ sed_rc = [r \in Req |-> "none"]
    /\ warned = [r \in Req |-> {}]
    /\ outside = FALSE

Init ==
    /\ InitPipeline
    /\ arg = <<>>
    /\ out = [fn |-> "none", val |-> <<>>]

-----------------------------------------------------------------------------
(* Control flow of one request *)

\* a step returned normally: the next statement of capture() runs
Advance(r, step, next) ==
    /\ pc' = [pc EXCEPT ![r] = next]
    /\ ran' = [ran EXCEPT ![r] = Append(@, step)]
    /\ UNCHANGED <<failedAt, err>>

\* a plausible slip: "except Exception: pass", the handler goes on to answer 200
RaiseSwallowed(r, step, msg) ==
    /\ pc' = [pc EXCEPT ![r] = "send_ok"]
    /\ failedAt' = [failedAt EXCEPT ![r] = step]
    /\ err' = [err EXCEPT ![r] = msg]
    /\ UNCHANGED ran

\* a step raised: the exception leaves capture() and handle_POST() and is
\* caught by "except Exception as e" in do_POST
Raise(r, step, msg) ==
    /\ pc' = [pc EXCEPT ![r] = "except"]
    /\ failedAt' = [failedAt EXCEPT ![r] = step]
    /\ err' = [err EXCEPT ![r] = msg]
    /\ UNCHANGED ran

\* a plausible slip: ThreadingHTTPServer, one thread per connection
HandlerFreeThreaded(r) == TRUE

\* HTTPServer.serve_forever(): a socketserver.TCPServer without ThreadingMixIn
\* handles one request to its end before it accepts the next
HandlerFree(r) == \A q \in Req \ {r} : pc[q] \in {"queued", "done"}

\* the locals of capture() after lines 78-93, c the config
Sanitized(p, c) ==
    [url |-> safe(p.url), title |-> safe(p.title),
     selection |-> safe(p.selection), comment |-> safe(p.comment),
     tag_str |-> safe(p.tag_str), tags |-> SplitTags(safe(p.tag_str)),
     md_path |-> MdPath(safe(p.comment)), org |-> <<>>, config |-> c]

\* accept() returns the connections of the listen backlog oldest first: the
\* requests are numbered in the order of their arrival
Oldest(r) == \A q \in Req : q < r => pc[q] # "queued"

\* serve_forever accepts r; do_POST -> handle_POST reads and decodes the body
\* and calls capture(**payload): a parameter without a value is a TypeError
\* raised by the call, before any statement of capture() runs
handle_POST(r) ==
    /\ pc[r] = "queued"
    /\ Oldest(r)
    /\ HandlerFree(r)
    /\ \E p \in Payloads :
         /\ req' = [req EXCEPT ![r] = p]
         /\ IF \E f \in Fields : p[f] = Absent
            THEN Raise(r, "call", "TypeError: missing argument")
            ELSE Advance(r, "call", "config")
    /\ UNCHANGED <<loc, resp, fs, md_before, pandoc, pipe, arg, out,
                   config_vars, sed_rc, warned, outside>>

\* config = capture_config() under @lru_cache(1), then lines 81-93: safe(),
\* obsidian_filename, md_path and tags.  A cached value is returned as it is.
\* On a miss the function runs: without CAPTURE_CONFIG_VAR it returns None;
\* with it the file is read and executed and Config() is built, or one of
\* these raises.  lru_cache stores a returned value, never an exception.
capture_config(r) ==
    /\ pc[r] = "config"
    /\ UNCHANGED cvar
    /\ \E ok \in BOOLEAN :
         LET hit == config_cache # "miss"
             load == ~hit /\ cvar = "set"
             val == IF hit THEN config_cache
                    ELSE IF cvar = "unset" THEN "None" ELSE "Config"
         IN  /\ loaded' = (loaded \/ load)
             /\ IF load /\ ~ok
                THEN /\ Raise(r, "config", "config not loaded")
                     /\ UNCHANGED <<loc, config_cache>>
                ELSE /\ config_cache' = val
                     /\ loc' = [loc EXCEPT ![r] = Sanitized(req[r], val)]
                     /\ pc' = [pc EXCEPT ![r] = "render"]
                     /\ ran' = [ran EXCEPT ![r] = @ \o <<"config", "sanitize">>]
                     /\ UNCHANGED <<failedAt, err>>
    /\ UNCHANGED <<req, resp, fs, md_before, pandoc, pipe, arg, out,
                   sed_rc, warned, outside>>

\* org = as_org(...): the renderer returns the text or raises
capture_render(r) ==
    /\ pc[r] = "render"
    /\ \E ok \in BOOLEAN :
         IF ok
         THEN /\ loc' = [loc EXCEPT ![r].org = as_org(loc[r])]
              /\ Advance(r, "render", "write_org")
         ELSE /\ Raise(r, "render", "render failed")
              /\ UNCHANGED loc
    /\ UNCHANGED <<req, resp, fs, md_before, pandoc, pipe, arg, out, config_vars,
                   sed_rc, warned, outside>>

\* the warnings of write_org: the path did not exist, the write is not atomic
Warnings(org) ==
    (IF fs[StagingPath] = NoFile THEN {"missing"} ELSE {})
    \cup (IF Utf8Len(org) > AtomicWriteLimit THEN {"oversize"} ELSE {})

\* a plausible slip: the staging file opened for appending
write_org_append(r) ==
    /\ pc[r] = "write_org"
    /\ warned' = [warned EXCEPT ![r] = Warnings(loc[r].org)]
    /\ \E res \in {"ok", "open fails", "write fails"} :
         /\ fs' = [fs EXCEPT ![StagingPath] =
                     CASE res = "ok" ->
                            [kind |-> "org", by |-> r, text |-> @.text \o loc[r].org]
                       [] res = "open fails" -> @
                       [] res = "write fails" -> EmptyFile]
         /\ outside' = IF res = "open fails" THEN outside ELSE FALSE
         /\ IF res = "ok"
            THEN Advance(r, "write_org", "mkdir")
            ELSE Raise(r, "write_org", "staging: " \o res)
    /\ UNCHANGED <<req, loc, resp, md_before, pandoc, pipe, arg, out,
                   config_vars, sed_rc>>

\* write_org(path, org): a warning when the path does not exist, a warning
\* when the text is longer than 4096 bytes, then path.open('w') truncates or
\* creates the file and fo.write(org) writes the text
write_org(r) ==
    /\ pc[r] = "write_org"
    /\ warned' = [warned EXCEPT ![r] = Warnings(loc[r].org)]
    /\ \E res \in {"ok", "open fails", "write fails"} :
         /\ fs' = [fs EXCEPT ![StagingPath] =
                     CASE res = "ok" -> OrgFile(r, loc[r].org)
                       [] res = "open fails" -> @
                       [] res = "write fails" -> EmptyFile]
         /\ outside' = IF res = "open fails" THEN outside ELSE FALSE
         /\ IF res = "ok"
            THEN Advance(r, "write_org", "mkdir")
            ELSE Raise(r, "write_org", "staging: " \o res)
    /\ UNCHANGED <<req, loc, resp, md_before, pandoc, pipe, arg, out,
                   config_vars, sed_rc>>

\* a file exists in directory d, so d exists
DirHoldsFile(d) == \E p \in DOMAIN fs : Parent(p) = d /\ fs[p] # NoFile

\* md_path.parent.mkdir(parents=True, exist_ok=True): nothing to do and no
\* error when the directory exists; creating it can fail
vault_mkdir(r) ==
    /\ pc[r] = "mkdir"
    /\ md_before' = [md_before EXCEPT ![r] = fs[loc[r].md_path]]
    /\ \E ok \in BOOLEAN :
         IF ok \/ DirHoldsFile(Parent(loc[r].md_path))
         THEN Advance(r, "mkdir", "popen")
         ELSE Raise(r, "mkdir", "mkdir failed")
    /\ UNCHANGED <<req, loc, resp, fs, pandoc, pipe, arg, out, config_vars,
                   sed_rc, warned, outside>>

\* pandoc_result = subprocess.Popen(['pandoc', ...], stdout=PIPE): the child is
\* started and not waited for
vault_popen(r) ==
    /\ pc[r] = "popen"
    /\ \E ok \in BOOLEAN :
         IF ok
         THEN /\ pandoc' = [pandoc EXCEPT ![r] = "running"]
              /\ Advance(r, "popen", "open_md")
         ELSE /\ Raise(r, "popen", "pandoc not launched")
              /\ UNCHANGED pandoc
    /\ UNCHANGED <<req, loc, resp, fs, md_before, pipe, arg, out, config_vars,
                   sed_rc, warned, outside>>

\* a plausible slip: the vault file opened for appending, nothing truncated
vault_open_append(r) ==
    /\ pc[r] = "open_md"
    /\ \E ok \in BOOLEAN :
         IF ok
         THEN /\ fs' = [fs EXCEPT ![loc[r].md_path] =
                          IF @ = NoFile THEN EmptyFile ELSE @]
              /\ Advance(r, "open_md", "sed")
         ELSE /\ Raise(r, "open_md", "vault file not opened")
              /\ UNCHANGED fs
    /\ UNCHANGED <<req, loc, resp, md_before, pandoc, pipe, arg, out, config_vars,
                   sed_rc, warned, outside>>

\* with md_path.open('w') as f: the vault file is created or truncated
vault_open(r) ==
    /\ pc[r] = "open_md"
    /\ \E ok \in BOOLEAN :
         IF ok
         THEN /\ fs' = [fs EXCEPT ![loc[r].md_path] = EmptyFile]
              /\ Advance(r, "open_md", "sed")
         ELSE /\ Raise(r, "open_md", "vault file not opened")
              /\ UNCHANGED fs
    /\ UNCHANGED <<req, loc, resp, md_before, pandoc, pipe, arg, out, config_vars,
                   sed_rc, warned, outside>>

\* subprocess.run(['sed', ...], stdin=pandoc_result.stdout, stdout=f): sed is
\* started, or cannot be
vault_sed(r) ==
    /\ pc[r] = "sed"
    /\ \E ok \in BOOLEAN :
         IF ok
         THEN /\ pc' = [pc EXCEPT ![r] = "sed_wait"]
              /\ UNCHANGED <<ran, failedAt, err>>
         ELSE Raise(r, "sed", "sed not launched")
    /\ UNCHANGED <<req, loc, resp, fs, md_before, pandoc, pipe, arg, out, config_vars,
                   sed_rc, warned, outside>>

\* the pandoc child of r has closed its stdout and exited
PandocExited(r) == pandoc[r] \in {"exit 0", "exit 1"}

\* a plausible slip: the exit status of pandoc checked (wait(), then raise)
vault_sed_wait_checked(r) ==
    /\ pc[r] = "sed_wait"
    /\ \/ /\ pandoc[r] = "exit 0"
          /\ fs' = [fs EXCEPT ![loc[r].md_path] = pipe[r]]
          /\ pipe' = [pipe EXCEPT ![r] = NoOutput]
          /\ sed_rc' = [sed_rc EXCEPT ![r] = "exit 0"]
          /\ Advance(r, "sed", "remove_org")
       \/ /\ pandoc[r] = "exit 1"
          /\ fs' = [fs EXCEPT ![loc[r].md_path] = pipe[r]]
          /\ pipe' = [pipe EXCEPT ![r] = NoOutput]
          /\ sed_rc' = [sed_rc EXCEPT ![r] = "exit 0"]
          /\ Raise(r, "sed", "pandoc failed")
       \/ /\ sed_rc' = [sed_rc EXCEPT ![r] = "exit 4"]
          /\ Advance(r, "sed", "remove_org")
          /\ UNCHANGED <<fs, pipe>>
    /\ UNCHANGED <<req, loc, resp, md_before, pandoc, arg, out, config_vars,
                   warned, outside>>

\* subprocess.run waits for sed and returns its CompletedProcess, which is
\* dropped: no timeout is given, the exit status is not looked at, pandoc is
\* not waited for.  sed ends at the end of its input, when pandoc has closed
\* its stdout, with the filtered text written to the vault file; or it ends
\* before, with exit status 4, when it cannot write to the vault file.
vault_sed_wait(r) ==
    /\ pc[r] = "sed_wait"
    /\ \/ /\ PandocExited(r)
          /\ fs' = [fs EXCEPT ![loc[r].md_path] = pipe[r]]
          /\ pipe' = [pipe EXCEPT ![r] = NoOutput]
          /\ sed_rc' = [sed_rc EXCEPT ![r] = "exit 0"]
       \/ /\ sed_rc' = [sed_rc EXCEPT ![r] = "exit 4"]
          /\ UNCHANGED <<fs, pipe>>
    /\ Advance(r, "sed", "remove_org")
    /\ UNCHANGED <<req, loc, resp, md_before, pandoc, arg, out, config_vars,
                   warned, outside>>

\* a plausible slip: the staging file emptied instead of deleted
remove_org_truncate(r) ==
    /\ pc[r] = "remove_org"
    /\ fs' = [fs EXCEPT ![StagingPath] = EmptyFile]
    /\ Advance(r, "remove_org", "send_ok")
    /\ UNCHANGED <<req, loc, resp, md_before, pandoc, pipe, arg, out, config_vars,
                   sed_rc, warned, outside>>

\* a plausible slip: path.unlink(missing_ok=True)
remove_org_missing_ok(r) ==
    /\ pc[r] = "remove_org"
    /\ \E ok \in BOOLEAN :
         IF ok \/ fs[StagingPath] = NoFile
         THEN /\ fs' = [fs EXCEPT ![StagingPath] = NoFile]
              /\ Advance(r, "remove_org", "send_ok")
         ELSE /\ Raise(r, "remove_org", "unlink failed")
              /\ UNCHANGED fs
    /\ UNCHANGED <<req, loc, resp, md_before, pandoc, pipe, arg, out, config_vars,
                   sed_rc, warned, outside>>

\* remove_org(path): path.unlink() raises when the file is missing or cannot
\* be deleted; then capture() builds and returns the response
remove_org(r) ==
    /\ pc[r] = "remove_org"
    /\ \E ok \in BOOLEAN :
         IF ok /\ fs[StagingPath] # NoFile
         THEN /\ fs' = [fs EXCEPT ![StagingPath] = NoFile]
              /\ Advance(r, "remove_org", "send_ok")
         ELSE /\ Raise(r, "remove_org", "unlink failed")
              /\ UNCHANGED fs
    /\ UNCHANGED <<req, loc, resp, md_before, pandoc, pipe, arg, out, config_vars,
                   sed_rc, warned, outside>>

\* a plausible slip: the response names the vault file
handle_POST_respond_vault(r) ==
    /\ pc[r] = "send_ok"
    /\ \E ok \in BOOLEAN :
         IF ok
         THEN /\ resp' = [resp EXCEPT ![r] =
                            Append(@, [OkResponse EXCEPT !.path = loc[r].md_path])]
              /\ pc' = [pc EXCEPT ![r] = "sent"]
              /\ UNCHANGED <<ran, failedAt, err>>
         ELSE /\ resp' = [resp EXCEPT ![r] = Append(@, OkHead)]
              /\ Raise(r, "respond", "Broken pipe")
    /\ UNCHANGED <<req, loc, fs, md_before, pandoc, pipe, arg, out, config_vars,
                   sed_rc, warned, outside>>

\* capture returned {'path': str(capture_path), 'status': 'ok'}; handle_POST
\* goes on: send_response(200), send_header, end_headers, wfile.write(res).
\* A write to a connection the client has closed raises (end_headers or
\* wfile.write) after send_response(200) has put the status line into the
\* response; the exception is caught by do_POST like any other.
handle_POST_respond(r) ==
    /\ pc[r] = "send_ok"
    /\ \E ok \in BOOLEAN :
         IF ok
         THEN /\ resp' = [resp EXCEPT ![r] = Append(@, OkResponse)]
              /\ pc' = [pc EXCEPT ![r] = "sent"]
              /\ UNCHANGED <<ran, failedAt, err>>
         ELSE /\ resp' = [resp EXCEPT ![r] = Append(@, OkHead)]
              /\ Raise(r, "respond", "Broken pipe")
    /\ UNCHANGED <<req, loc, fs, md_before, pandoc, pipe, arg, out, config_vars,
                   sed_rc, warned, outside>>

\* a plausible slip: a fixed text instead of str(e)
respond_error_generic(r) ==
    /\ pc[r] = "except"
    /\ resp' = [resp EXCEPT ![r] = Append(@, ErrorResponse("Internal Server Error"))]
    /\ pc' = [pc EXCEPT ![r] = "sent"]
    /\ UNCHANGED <<req, loc, ran, failedAt, err, fs, md_before, pandoc, pipe,
                   arg, out, config_vars,
                   sed_rc, warned, outside>>

\* do_POST: except Exception as e: respond_error(message=str(e))
respond_error(r) ==
    /\ pc[r] = "except"
    /\ resp' = [resp EXCEPT ![r] = Append(@, ErrorResponse(err[r]))]
    /\ pc' = [pc EXCEPT ![r] = "sent"]
    /\ UNCHANGED <<req, loc, ran, failedAt, err, fs, md_before, pandoc, pipe,
                   arg, out, config_vars,
                   sed_rc, warned, outside>>

\* do_POST returns: the connection is closed, the handler, the locals of the
\* request and the handle of its child process are gone; serve_forever goes
\* on to the next connection
finish_request(r) ==
    /\ pc[r] = "sent"
    /\ pc' = [pc EXCEPT ![r] = "done"]
    /\ req' = [req EXCEPT ![r] = NoPayload]
    /\ loc' = [loc EXCEPT ![r] = NoLocals]
    /\ ran' = [ran EXCEPT ![r] = <<>>]
    /\ failedAt' = [failedAt EXCEPT ![r] = "none"]
    /\ err' = [err EXCEPT ![r] = ""]
    /\ md_before' = [md_before EXCEPT ![r] = NoFile]
    /\ pipe' = [pipe EXCEPT ![r] = NoOutput]
    /\ resp' = [resp EXCEPT ![r] = NoResponse]
    /\ pandoc' = [pandoc EXCEPT ![r] = "none"]
    /\ sed_rc' = [sed_rc EXCEPT ![r] = "none"]
    /\ warned' = [warned EXCEPT ![r] = {}]
    /\ outside' = FALSE
    /\ UNCHANGED <<fs, arg, out, config_vars>>

-----------------------------------------------------------------------------
(* The pandoc child process *)

\* pandoc reads the staging file, writes the markdown to its stdout and exits
\* with status 0 (when the file has been deleted in the meantime, it had been
\* read before); or it fails (the file is missing, or any other failure) and
\* exits with a non-zero status, with nothing or a part of the markdown
\* written.  Output nobody reads any more is lost.
PandocFinish(r) ==
    /\ pandoc[r] = "running"
    /\ \E code \in {0, 1} : \E part \in {NoOutput, PartialOutput} :
         LET text == IF fs[StagingPath] # NoFile THEN fs[StagingPath]
                     ELSE OrgFile(r, loc[r].org)
             data == IF code = 0 THEN MdOf(r, text) ELSE part
         IN  /\ pandoc' = [pandoc EXCEPT ![r] =
                             IF code = 0 THEN "exit 0" ELSE "exit 1"]
             /\ pipe' = [pipe EXCEPT ![r] =
                           IF pc[r] \in {"open_md", "sed", "sed_wait"}
                           THEN data ELSE NoOutput]
    /\ UNCHANGED <<pc, req, loc, ran, failedAt, err, resp, fs, md_before,
                   arg, out, config_vars, sed_rc, warned, outside>>

\* pandoc never finishes and never closes its stdout
PandocHang(r) ==
    /\ pandoc[r] = "running"
    /\ pandoc' = [pandoc EXCEPT ![r] = "hung"]
    /\ UNCHANGED <<pc, req, loc, ran, failedAt, err, resp, fs, md_before,
                   pipe, arg, out, config_vars,
                   sed_rc, warned, outside>>

-----------------------------------------------------------------------------
(* Other users of the staging path *)

\* Another actor (the user, an editor, a sync tool) deletes the staging file
\* while a capture is between write_org and remove_org.
OutsideRemove ==
    /\ fs[StagingPath] # NoFile
    /\ \E r \in Req :
         pc[r] \in {"mkdir", "popen", "open_md", "sed", "sed_wait", "remove_org"}
    /\ fs' = [fs EXCEPT ![StagingPath] = NoFile]
    /\ outside' = TRUE
    /\ UNCHANGED <<pc, req, loc, ran, failedAt, err, resp, md_before, pandoc,
                   pipe, arg, out, config_vars, sed_rc, warned>>

-----------------------------------------------------------------------------
(* Specification of the server *)

Step(r) ==
    \/ handle_POST(r)
    \/ capture_config(r)
    \/ capture_render(r)
    \/ write_org(r)
    \/ vault_mkdir(r)
    \/ vault_popen(r)
    \/ vault_open(r)
    \/ vault_sed(r)
    \/ vault_sed_wait(r)
    \/ remove_org(r)
    \/ handle_POST_respond(r)
    \/ respond_error(r)
    \/ finish_request(r)

Next ==
    \/ \E r \in Req : Step(r) \/ PandocFinish(r) \/ PandocHang(r)
    \/ OutsideRemove

Spec == Init /\ [][Next]_vars

\* a step of r other than the return of a sed that ended before the end of
\* its input
SureStep(r) == Step(r) /\ (pc[r] = "sed_wait" => PandocExited(r))

\* Every step of the server is taken when it can be, but nothing makes sed
\* fail.  A pandoc that can finish does; one that hangs (PandocHang) never
\* does.
FairSpec ==
    /\ Spec
    /\ \A r \in Req : WF_vars(SureStep(r)) /\ WF_vars(PandocFinish(r))

-----------------------------------------------------------------------------
(* Specification of the pure functions: one input, one application *)

InitPure ==
    /\ InitPipeline
    /\ arg \in Strings(MaxLen) \cup {Null} \cup SedInputs(MaxPieces)
    /\ out = [fn |-> "none", val |-> <<>>]

\* comment = safe(comment); obsidian_filename = comment.split(".")[0] + '.md'
ApplyFilename ==
    /\ out.fn = "none"
    /\ out' = [fn |-> "filename", val |-> ObsidianFilename(safe(arg))]
    /\ UNCHANGED <<arg, pipeline_vars>>

\* tag_str = safe(tag_str); tags = ... (lines 90-93)
ApplyTags ==
    /\ out.fn = "none"
    /\ out' = [fn |-> "tags", val |-> SplitTags(safe(arg))]
    /\ UNCHANGED <<arg, pipeline_vars>>

\* the text pandoc wrote, filtered by sed (line 42)
ApplySed ==
    /\ out.fn = "none"
    /\ arg # Null
    /\ out' = [fn |-> "sed", val |-> SedFilter(arg)]
    /\ UNCHANGED <<arg, pipeline_vars>>

NextPure == ApplyFilename \/ ApplyTags \/ ApplySed

SpecPure == InitPure /\ [][NextPure]_vars

-----------------------------------------------------------------------------
(* Properties of the pipeline, checked under Spec *)

Staging == fs[StagingPath]

\* the steps of move_to_obsidian_vault (step 6)
ConvertSteps == {"mkdir", "popen", "open_md", "sed"}

\* r is inside move_to_obsidian_vault
Converting(r) == pc[r] \in {"mkdir", "popen", "open_md", "sed", "sed_wait"}

\* r is between the start of write_org and the end of remove_org (steps 5-7)
InCritical(r) == pc[r] = "write_org" \/ Converting(r) \/ pc[r] = "remove_org"

\* capture of r has returned, the handler answers or has answered 200
Succeeded(r) ==
    \/ pc[r] = "send_ok"
    \/ pc[r] = "sent" /\ resp[r] = <<OkResponse>>

\* the position of a step in StepOrder
StepIndex(step) == CHOOSE i \in 1..Len(StepOrder) : StepOrder[i] = step

C2_Original ==
    \A r \in Req :
        /\ pc[r] \in {"except", "sent"}
        /\ failedAt[r] \in ConvertSteps
        /\ md_before[r] = NoFile
        /\ ~outside
        => Staging # NoFile /\ fs[loc[r].md_path] = NoFile

\* C2 amended: if the Vault Converter fails, remove_org is never called and
\* the staging file still holds the text of this capture (unless another
\* actor than the server deleted it); the vault file is
\* as it was before the conversion when mkdir, the launch of pandoc or the
\* opening of the vault file failed, and it exists and is empty when sed
\* could not be launched.
C2_Amended ==
    \A r \in Req :
        pc[r] \in {"except", "sent"} /\ failedAt[r] \in ConvertSteps
        => /\ Staging = IF outside THEN NoFile ELSE OrgFile(r, loc[r].org)
           /\ \A i \in 1..Len(ran[r]) : ran[r][i] # "remove_org"
           /\ failedAt[r] \in {"mkdir", "popen", "open_md"}
                => fs[loc[r].md_path] = md_before[r]
           /\ failedAt[r] = "sed" => fs[loc[r].md_path] = EmptyFile

\* C2 witness: sed could not be launched by a capture whose vault file did
\* not exist before.
C2_Witness ==
    \E r \in Req :
        /\ pc[r] = "except"
        /\ failedAt[r] = "sed"
        /\ md_before[r] = NoFile
        /\ fs[loc[r].md_path] = EmptyFile

\* C3: an error raised in any step of capture() aborts the remaining steps
\* (exactly the steps before the failing one have run, each once), and the
\* handler answers once, with status 500 and the message of the error as body.
C3_ErrorAbortsAndAnswers500 ==
    \A r \in Req :
        failedAt[r] \notin {"none", "respond"}
        => /\ pc[r] \in {"except", "sent"}
           /\ ran[r] = SubSeq(StepOrder, 1, StepIndex(failedAt[r]) - 1)
           /\ err[r] # ""
           /\ pc[r] = "except" => resp[r] = NoResponse
           /\ pc[r] = "sent" => resp[r] = <<ErrorResponse(err[r])>>

\* C3 witness: the staging write failed and the 500 has been sent.
C3_Witness ==
    \E r \in Req :
        /\ pc[r] = "sent"
        /\ failedAt[r] = "write_org"
        /\ resp[r] = <<ErrorResponse(err[r])>>

C5_OneCaptureInCriticalSection ==
    Cardinality({r \in Req : InCritical(r)}) <= 1

\* C5 witness: one capture is in its conversion while another request is
\* waiting to be served.
C5_Witness ==
    \E r, q \in Req : r # q /\ pc[r] = "sed_wait" /\ pc[q] = "queued"

\* C6: whenever a capture is in its conversion step, the staging file exists
\* and holds the text this capture wrote in step 5: no other capture has
\* overwritten or deleted it.  (Only an actor other than the server can have
\* deleted it.)
C6_StagingIsOwnDuringConversion ==
    \A r \in Req :
        Converting(r)
        => Staging = IF outside THEN NoFile ELSE OrgFile(r, loc[r].org)

\* C6 witness: a capture is in its conversion after another capture has
\* written a vault file and cleaned up.
C6_Witness ==
    \E r, q \in Req :
        /\ r # q
        /\ pc[r] = "sed_wait"
        /\ pc[q] = "done"
        /\ \E p \in Paths : p # loc[r].md_path /\ fs[p].kind = "md"

\* C7 as stated: sanitizing never raises; a request whose optional fields are
\* absent or null proceeds to the later steps.  (A field absent from the
\* payload fails the call of capture(), before safe() is reached.)
C7_SanitizeNeverRaises ==
    \A r \in Req : failedAt[r] \notin {"call", "sanitize"}

\* C12: the success response of every capture is {path: <staging path>,
\* status: "ok"}: its path is the staging path of the process, whatever the
\* comment, and never the path of the vault file the capture produced.
C12_ResponseEchoesStagingPath ==
    \A r \in Req : \A i \in 1..Len(resp[r]) :
        resp[r][i].status = "ok" \/ resp[r][i].path # <<>>
        => /\ resp[r][i].code = 200
           /\ resp[r][i].status = "ok"
           /\ resp[r][i].path = StagingPath
           /\ resp[r][i].path # loc[r].md_path
           /\ resp[r][i].text = ""

\* C12 witness: the success response of a capture with a comment, whose
\* vault file is named after the comment.
C12_Witness ==
    \E r \in Req :
        /\ pc[r] = "sent"
        /\ resp[r] = <<OkResponse>>
        /\ loc[r].comment # <<>>
        /\ fs[loc[r].md_path].kind = "md"

\* r reads and evaluates the config source in this step: capture_config()
\* runs its body with a config path set
LoadsConfig(r) ==
    /\ pc[r] = "config"
    /\ pc'[r] # "config"
    /\ config_cache = "miss"
    /\ cvar = "set"

\* C11 as stated: over any sequence of captures the config source is read and
\* evaluated at most once, also when the first load attempt fails: no capture
\* loads it after an earlier capture has.
C11_ConfigLoadedAtMostOnce ==
    [][\A r \in Req : LoadsConfig(r) => ~loaded]_vars

\* C13 as stated: the cleanup starts only after the Vault Converter has
\* completely finished, pandoc has exited; the staging file is never deleted
\* while a converter process of the capture is still running.
C13_CleanupAfterConverterEnded ==
    \A r \in Req :
        pc[r] \in {"remove_org", "send_ok"} => pandoc[r] \notin {"running", "hung"}

\* C14: a non-zero exit of pandoc is no failure of the capture: what pandoc
\* wrote, nothing or a part, is filtered and written to the vault file, no
\* error is raised for it, and the capture goes on to delete the staging file
\* and to return the success response.
C14_PandocFailureIsNoFailure ==
    \A r \in Req :
        pandoc[r] = "exit 1"
        => /\ failedAt[r] \in {"none", "open_md", "sed", "remove_org", "respond"}
           /\ failedAt[r] = "sed" => err[r] = "sed not launched" /\ sed_rc[r] = "none"
           /\ sed_rc[r] = "exit 0"
                => /\ fs[loc[r].md_path] \in {NoOutput, PartialOutput}
                   /\ \E i \in 1..Len(ran[r]) : ran[r][i] = "sed"
           /\ pc[r] = "send_ok" => Staging = NoFile /\ ran[r] = StepOrder

\* C14 witness: pandoc exited with a non-zero status and wrote a part of the
\* markdown; the capture wrote it to the vault file, deleted the staging file
\* and answered 200.
C14_Witness ==
    \E r \in Req :
        /\ pandoc[r] = "exit 1"
        /\ sed_rc[r] = "exit 0"
        /\ pc[r] = "sent"
        /\ resp[r] = <<OkResponse>>
        /\ fs[loc[r].md_path] = PartialOutput
        /\ Staging = NoFile

\* C15 as stated: the Vault Converter surfaces an error (the capture fails,
\* the staging file is kept, the handler answers 500) whenever pandoc or sed
\* cannot be launched or the final write of the filtered output to the vault
\* file fails; none of these ends in the success response.
C15_ConverterErrorsSurface ==
    \A r \in Req :
        /\ sed_rc[r] = "exit 4"
           => /\ pc[r] \in {"except", "sent"}
              /\ failedAt[r] = "sed"
              /\ ~outside => Staging = OrgFile(r, loc[r].org)
        /\ failedAt[r] \in {"popen", "sed"}
           => /\ pc[r] \in {"except", "sent"}
              /\ ~outside => Staging = OrgFile(r, loc[r].org)
              /\ pc[r] = "sent" => resp[r] = <<ErrorResponse(err[r])>>

\* C16: when the staging file no longer exists at cleanup (another actor
\* deleted it after write_org), remove_org raises, the capture never returns
\* success and is answered 500, and the vault file written by the conversion
\* stays in place.
C16_MissingStagingFailsCleanup ==
    \A r \in Req :
        /\ outside => ~Succeeded(r)
        /\ pc[r] \in {"except", "sent"} /\ failedAt[r] = "remove_org"
           => /\ fs[loc[r].md_path] # NoFile
              /\ ran[r] = SubSeq(StepOrder, 1, Len(StepOrder) - 1)
              /\ err[r] = "unlink failed"
              /\ pc[r] = "sent" => resp[r] = <<ErrorResponse(err[r])>>

\* C16 witness: the staging file was deleted by another actor during the
\* conversion; the capture has written the markdown to the vault file, has
\* failed in remove_org and has been answered 500.
C16_Witness ==
    \E r \in Req :
        /\ outside
        /\ Staging = NoFile
        /\ pc[r] = "sent"
        /\ failedAt[r] = "remove_org"
        /\ resp[r] = <<ErrorResponse("unlink failed")>>
        /\ fs[loc[r].md_path].kind = "md"

\* C17: write_org always overwrites: whatever the staging path held before
\* (nothing, an old file, the text of an earlier capture) and however long the
\* text is, when write_org returns the staging file holds exactly the text of
\* this capture; a missing path and an oversize text are only logged (a
\* write fails for an I/O error alone).
C17_WriteOrgOverwrites ==
    [][\A r \in Req :
          pc[r] = "write_org" /\ pc'[r] # "write_org"
          => /\ warned'[r] =
                   {w \in {"missing"} : Staging = NoFile}
                   \cup {w \in {"oversize"} : LongTitle = loc[r].title}
             /\ pc'[r] = "mkdir" => fs'[StagingPath] = OrgFile(r, loc[r].org)
             /\ pc'[r] # "mkdir"
                  => /\ pc'[r] = "except"
                     /\ err'[r] \in {"staging: open fails", "staging: write fails"}
      ]_vars

\* C17 witness: write_org has returned for a text of more than 4096 bytes
\* written to a path that did not exist: both warnings, and the file holds
\* the text.
C17_Witness ==
    \E r \in Req :
        /\ pc[r] = "mkdir"
        /\ warned[r] = {"missing", "oversize"}
        /\ Utf8Len(loc[r].org) > AtomicWriteLimit
        /\ Staging = OrgFile(r, loc[r].org)

\* C19 as stated: for every comment, also one that contains path separators
\* or starts with '/', the file a capture creates or truncates, and every
\* directory it creates, lies inside the vault directory: apart from the
\* staging file a capture writes nothing outside the vault.
C19_WritesStayInVault ==
    \A p \in DOMAIN fs :
        p # StagingPath /\ fs[p].kind \in {"empty", "cut", "md"} => InVault(p)

\* C20 as stated: the handler sends exactly one status line per request, 200
\* or 500 and never both; a 200 only after capture() has returned, the
\* staging file removed; no 500 after a 200 has been started, also when
\* writing the response fails.
C20_ExactlyOneResponse ==
    \A r \in Req :
        /\ Len(resp[r]) <= 1
        /\ pc[r] = "sent" => Len(resp[r]) = 1
        /\ \A i \in 1..Len(resp[r]) :
             /\ resp[r][i].code \in {200, 500}
             /\ resp[r][i].code = 200 => ran[r] = StepOrder /\ Staging = NoFile
        /\ ~ \E i, j \in 1..Len(resp[r]) :
               i < j /\ resp[r][i].code = 200 /\ resp[r][j].code = 500

\* C10 as stated: every capture eventually ends in success or failure, also
\* when the converter process hangs.
C10_EveryCaptureEnds ==
    \A r \in Req : <>(pc[r] = "done")

-----------------------------------------------------------------------------
(* Properties of the pure functions, checked under SpecPure *)

\* the index of the first '.' of s, Len(s) + 1 when there is none
FirstDot(s) ==
    IF \E i \in 1..Len(s) : s[i] = "."
    THEN CHOOSE i \in 1..Len(s) :
            s[i] = "." /\ \A j \in 1..(i - 1) : s[j] # "."
    ELSE Len(s) + 1

\* C8: the output filename is the text of the comment before its first '.'
\* followed by ".md": the whole comment when it has no '.', ".md" alone when
\* it is empty or starts with '.'.
C8_FilenameIsTextBeforeFirstDot ==
    out.fn = "filename"
    => LET c == safe(arg)
       IN  /\ out.val = SubSeq(c, 1, FirstDot(c) - 1) \o MdSuffix
           /\ (\A i \in 1..Len(c) : c[i] # ".") => out.val = c \o MdSuffix
           /\ (c = <<>> \/ (c # <<>> /\ c[1] = ".")) => out.val = MdSuffix

\* C8 witness: the filename of a comment with two '.' after a first letter.
C8_Witness ==
    /\ out.fn = "filename"
    /\ arg = <<"a", ".", "b", ".">>
    /\ out.val = <<"a", ".", "m", "d">>

IsTagChar(s, i) == s[i] \notin TagDelims

\* where the maximal runs of tag characters of s start
RunStarts(s) ==
    {i \in 1..Len(s) : IsTagChar(s, i) /\ (i = 1 \/ ~IsTagChar(s, i - 1))}

\* where the run that starts at i ends
RunEnd(s, i) ==
    CHOOSE j \in i..Len(s) :
        /\ \A k \in i..j : IsTagChar(s, k)
        /\ j = Len(s) \/ ~IsTagChar(s, j + 1)

\* the k-th smallest element of a set of numbers
Nth(S, k) == CHOOSE x \in S : Cardinality({y \in S : y < x}) = k - 1

\* the maximal runs of characters that are neither whitespace nor comma
MaximalRuns(s) ==
    [k \in 1..Cardinality(RunStarts(s)) |->
        SubSeq(s, Nth(RunStarts(s), k), RunEnd(s, Nth(RunStarts(s), k)))]

\* C9: the tag list is the sequence of maximal runs of characters that are
\* neither whitespace nor comma, in order, duplicates kept; no tag is empty
\* or whitespace-only; the list is empty for an empty or whitespace-only
\* tag_str.
C9_TagsAreMaximalRuns ==
    out.fn = "tags"
    => LET t == safe(arg)
       IN  /\ out.val = MaximalRuns(t)
           /\ \A k \in 1..Len(out.val) :
                /\ out.val[k] # <<>>
                /\ \E i \in 1..Len(out.val[k]) : out.val[k][i] \notin Whitespace
           /\ (\A i \in 1..Len(t) : t[i] \in Whitespace) => out.val = <<>>

\* C9 witness: a duplicated tag separated by a comma and a blank.
C9_Witness ==
    /\ out.fn = "tags"
    /\ arg = <<"a", ",", " ", "a">>
    /\ out.val = << <<"a">>, <<"a">> >>

\* x occurs in s
Contains(s, x) == \E i \in 1..Len(s) : MatchAt(s, x, i)

\* how many positions of s satisfy: s[i] = c
Count(s, c) == Cardinality({i \in 1..Len(s) : s[i] = c})

\* the backslashes of s that stand before a square bracket
Escapes(s) ==
    {i \in 1..(Len(s) - 1) : s[i] = "\\" /\ s[i + 1] \in {"[", "]"}}

\* C18 as stated: the filter yields the text with each \[ replaced by [, each
\* \] by ] and every occurrence of the marker removed, so that the output
\* contains no occurrence of the marker; "a \[b\] #org2mdissues#c" becomes
\* "a [b] c".
C18_Original ==
    out.fn = "sed"
    => /\ ~Contains(out.val, Marker)
       /\ arg = SedExample => out.val = <<"a", " ", "[", "b", "]", " ", "c">>

\* C18 amended: the filter removes the backslash before every square bracket
\* and then the occurrences of the marker found in one pass from the left;
\* nothing else changes ("a \[b\] #org2mdissues#c" becomes "a [b] c").  The
\* output contains the marker only where removals joined the beginning of a
\* marker, which stood directly before a removed marker, with the rest of
\* it, which stood directly behind one; a text without marker stays without.
C18_Amended ==
    out.fn = "sed"
    => /\ arg = SedExample => out.val = <<"a", " ", "[", "b", "]", " ", "c">>
       /\ Count(out.val, "\\") = Count(arg, "\\") - Cardinality(Escapes(arg))
       /\ \A c \in {"[", "]", "a", " "} : Count(out.val, c) = Count(arg, c)
       /\ \E k \in 0..Len(arg) :
            /\ Len(out.val) = Len(arg) - Cardinality(Escapes(arg)) - k * Len(Marker)
            /\ Count(out.val, "#") = Count(arg, "#") - 2 * k
            /\ Contains(arg, Marker) => k > 0
       /\ Contains(out.val, Marker)
            => \E k, j \in 1..(Len(Marker) - 1) :
                 /\ k <= j
                 /\ Contains(arg, SubSeq(Marker, 1, k) \o Marker)
                 /\ Contains(arg, Marker \o SubSeq(Marker, j + 1, Len(Marker)))

\* C18 witness: a marker inside a marker; the filter removes the inner one
\* and the output is the marker.
C18_Witness ==
    /\ out.fn = "sed"
    /\ arg = SubSeq(Marker, 1, 8) \o Marker \o SubSeq(Marker, 9, Len(Marker))
    /\ out.val = Marker

====
